---- MODULE Spec2Model ----
(***************************************************************************)
(* Model of src/logger.c: the formatted logger (LOGGER_ENABLED) and the    *)
(* hard-fault breadcrumb ring (HARD_FAULT_LOGGER_ENABLED), both writing    *)
(* into the 256 byte logger_buffer.                                        *)
(*                                                                         *)
(* Bytes are the integers 0..255 (ASCII), C strings are sequences of       *)
(* bytes, offsets into logger_buffer are 0-based as in the C code          *)
(* (offset o is element o + 1 of the sequence).                            *)
(***************************************************************************)
EXTENDS Integers, Sequences, FiniteSets, TLC

VARIABLES
    build,                 \* what the compiler / libc fixed: mode, sizeof(char*), memcpy direction
    logger_buffer,         \* static char logger_buffer[256]
    oob,                   \* TRUE once a byte was written outside logger_buffer
    currentLogLevel,       \* logger_levels_t currentLogLevel
    app_name,              \* static char app_name[50]
    pfGetMilliseconds,     \* "NULL" or "clock"
    pfLoggerPrintf,        \* "NULL" or "sink"
    sink,                  \* the calls pfLoggerPrintf received during the last LOGGER ZB_printf
    last,                  \* the last LOGGER ZB_printf call: its level and locals
    pc,                    \* HARD_FAULT ZB_printf: "idle", "evict" (in the do-while), "write"
    calls,                 \* HARD_FAULT: the (file, line) arguments of the calls made, in order
    new_log_length,        \* HARD_FAULT ZB_printf local
    length_of_stored_log,  \* HARD_FAULT ZB_printf local
    evictions,             \* HARD_FAULT: do-while iterations of the current call that removed bytes
    result,                \* HARD_FAULT: "none", "written" or "caseB" (how the last call returned)
    levelSet,              \* TRUE once SetCurrentLogLevel was called
    snapshot,              \* the caller's buffer GetLoggerBuffer last copied into, <<>> before
    path,                  \* the argument of the last GetFileNameFromPath call
    fileName               \* what that call returned

vars == <<build, logger_buffer, oob, currentLogLevel, app_name, pfGetMilliseconds,
          pfLoggerPrintf, sink, last, pc, calls, new_log_length,
          length_of_stored_log, evictions, result, levelSet, snapshot,
          path, fileName>>

-----------------------------------------------------------------------------
(* Program constants                                                       *)

LOGGER_BUFFER_MAX_LENGTH == 256

APP_NAME_SIZE == 50

\* const char separator[1] = "-"
separator == 45

DBG == 0

INFO == 1

WARN == 2

ERR == 3

FATAL == 4

Levels == {DBG, INFO, WARN, ERR, FATAL}

\* const char* RESET_NEWLINE = "\n\r\x1b[0m"
RESET_NEWLINE == <<10, 13, 27, 91, 48, 109>>

-----------------------------------------------------------------------------
(* Bounds of the model                                                     *)

\* HARD_FAULT: number of ZB_printf(file, line) calls in one behaviour
MaxCalls == 4

\* longest path given to GetFileNameFromPath on its own
MaxPathLen == 4

-----------------------------------------------------------------------------
(* Builds.  sizeof(RESET_NEWLINE) is the size of a pointer, 4 or 8 bytes.  *)
(* memcpy on overlapping regions (logger.c:376) is undefined: libc copies  *)
(* either from the low addresses up or from the high addresses down.       *)

PointerSizes == {4, 8}

Builds ==
    {[mode |-> "LOGGER", sizeofPtr |-> p, memcpyBackward |-> FALSE] : p \in PointerSizes}
    \cup
    {[mode |-> "HARD_FAULT", sizeofPtr |-> 4, memcpyBackward |-> b] : b \in BOOLEAN}

\* size_t arithmetic wraps.  Every quantity of the model is below 2^10, so
\* a difference that is negative wraps to a value above all of them for
\* every width of size_t (16, 32 or 64 bits); 2^16 is the narrowest width
\* C allows, and 2^32 does not fit TLC's integers.
SIZE_T_MODULUS == 2^16

ToSizeT(x) == x % SIZE_T_MODULUS

-----------------------------------------------------------------------------
(* Text helpers                                                            *)

Min(a, b) == IF a < b THEN a ELSE b

Rep(c, n) == [i \in 1..n |-> c]

Zeros == Rep(0, LOGGER_BUFFER_MAX_LENGTH)

RECURSIVE Digits(_)
\* decimal digits of n >= 0, as printf renders them
Digits(n) == IF n < 10 THEN <<48 + n>> ELSE Digits(n \div 10) \o <<48 + (n % 10)>>

\* five decimal digits of 0 <= n < 100000, zero padded
Pad5(n) == <<48 + (n \div 10000), 48 + ((n \div 1000) % 10), 48 + ((n \div 100) % 10),
             48 + ((n \div 10) % 10), 48 + (n % 10)>>

\* "%d" of an int
FormatD(n) == IF n < 0 THEN <<45>> \o Digits(0 - n) ELSE Digits(n)

\* "%u" given a 32-bit int: a negative value prints as 2^32 + n.
\* 2^32 = 42949 * 100000 + 67296, computed in two halves.
FormatU(n) ==
    IF n >= 0 THEN Digits(n)
    ELSE LET lo0 == 67296 + (n % 100000)
             hi0 == 42949 + (n \div 100000)
             hi  == IF lo0 >= 100000 THEN hi0 + 1 ELSE hi0
             lo  == IF lo0 >= 100000 THEN lo0 - 100000 ELSE lo0
         IN Digits(hi) \o Pad5(lo)

\* strlen of a char array: offset of the first 0 byte (the array's size if none)
StrLen(arr) ==
    IF \E i \in 1..Len(arr) : arr[i] = 0
    THEN (CHOOSE i \in 1..Len(arr) : arr[i] = 0 /\ \A j \in 1..(i - 1) : arr[j] # 0) - 1
    ELSE Len(arr)

\* the C string held in a char array
CStr(arr) == SubSeq(arr, 1, StrLen(arr))

\* strrchr(path, c) as a 1-based position in path, 0 for NULL
StrRChr(s, c) ==
    IF \E i \in 1..Len(s) : s[i] = c
    THEN CHOOSE i \in 1..Len(s) : s[i] = c /\ \A j \in (i + 1)..Len(s) : s[j] # c
    ELSE 0

\* strchr(path, c) as a 1-based position, 0 for NULL
StrChr(s, c) ==
    IF \E i \in 1..Len(s) : s[i] = c
    THEN CHOOSE i \in 1..Len(s) : s[i] = c /\ \A j \in 1..(i - 1) : s[j] # c
    ELSE 0

GetFileNameFromPathSlashFirst(p) ==
    LET lastSlash     == StrRChr(p, 47)
        lastBackslash == StrRChr(p, 92)
        lastSeparator == IF lastSlash # 0 THEN lastSlash ELSE lastBackslash
    IN IF lastSeparator # 0 THEN SubSeq(p, lastSeparator + 1, Len(p)) ELSE p

\* positions stand for the pointers, 0 for NULL: NULL compares below every
\* pointer into the string
GetFileNameFromPath(p) ==
    LET lastSlash     == StrRChr(p, 47)
        lastBackslash == StrRChr(p, 92)
        lastSeparator == IF lastSlash > lastBackslash THEN lastSlash ELSE lastBackslash
    IN IF lastSeparator # 0 THEN SubSeq(p, lastSeparator + 1, Len(p)) ELSE p

\* snprintf(logger_buffer + off, size, ...) where the formatted text is
\* `text`: copies n = min(len, size - 1) bytes and a terminating 0, nothing
\* when size = 0; returns len.  wrote_outside: a byte went to offset >= 256.
SnprintfCopiedNoTerminator(size, len) == Min(len, size)

SnprintfCopied(size, len) == IF size = 0 THEN 0 ELSE Min(len, size - 1)

Snprintf(buf, off, size, text) ==
    LET n == SnprintfCopied(size, Len(text))
    IN [buf |-> IF size = 0 \/ off >= LOGGER_BUFFER_MAX_LENGTH THEN buf
                ELSE SubSeq(buf, 1, off)
                     \o SubSeq(text, 1, Min(n, LOGGER_BUFFER_MAX_LENGTH - off))
                     \o (IF off + n < LOGGER_BUFFER_MAX_LENGTH THEN <<0>> ELSE <<>>)
                     \o SubSeq(buf, off + n + 2, LOGGER_BUFFER_MAX_LENGTH),
        wrote_outside |-> size > 0 /\ off + n >= LOGGER_BUFFER_MAX_LENGTH,
        ret |-> Len(text)]

-----------------------------------------------------------------------------
(* HARD_FAULT_LOGGER_ENABLED: ZB_printf(file, line), logger.c:356-384       *)

RECURSIVE DigitCount(_)
\* (int)(log10(x) + 1) for x >= 1
DigitCount(x) == IF x < 10 THEN 1 ELSE 1 + DigitCount(x \div 10)

\* const int length_of_line = ...
LengthOfLine(line) ==
    IF line = 0 THEN 1
    ELSE DigitCount(IF line < 0 THEN 0 - line ELSE line) + (IF line < 0 THEN 1 ELSE 0)

NewLogLength(file, line) == Len(GetFileNameFromPath(file)) + LengthOfLine(line) + 1

\* strrchr(logger_buffer, '-') == NULL ? 0 : strrchr(...) - logger_buffer + 1.
\* The scan ends at the first 0 byte.  With no 0 byte in the array the scan
\* runs into the memory behind it: the result is then whatever lies there,
\* here either the in-array answer or an offset past the array.
StoredLogLengths(buf) ==
    IF StrLen(buf) < LOGGER_BUFFER_MAX_LENGTH
    THEN {StrRChr(CStr(buf), separator)}
    ELSE {StrRChr(buf, separator), LOGGER_BUFFER_MAX_LENGTH + 1}

\* strchr(logger_buffer, '-') == NULL ? 0 : strchr(...) - logger_buffer + 1
LatestStoredLogLengths(buf) ==
    IF StrLen(buf) < LOGGER_BUFFER_MAX_LENGTH
    THEN {StrChr(CStr(buf), separator)}
    ELSE {StrChr(buf, separator), LOGGER_BUFFER_MAX_LENGTH + 1}

\* memcpy(logger_buffer, logger_buffer + l, 256 - l) for 0 <= l <= 256.
\* The regions overlap when 0 < l < 128.  Copying upwards gives the shifted
\* bytes; copying downwards re-reads bytes it has already overwritten, so
\* byte i ends as the old byte at the offset in [256 - l, 256) congruent to
\* i modulo l.  The last l bytes are not written.
Memcpy(buf, l, backward) ==
    LET n == LOGGER_BUFFER_MAX_LENGTH - l
    IN IF l = 0 THEN buf
       ELSE IF ~backward
       THEN SubSeq(buf, l + 1, LOGGER_BUFFER_MAX_LENGTH)
            \o SubSeq(buf, n + 1, LOGGER_BUFFER_MAX_LENGTH)
       ELSE [i \in 1..LOGGER_BUFFER_MAX_LENGTH |->
               IF i - 1 >= n THEN buf[i]
               ELSE buf[(i - 1) + (((n - (i - 1)) + (l - 1)) \div l) * l + 1]]

\* memset(logger_buffer + 256 - l, 0x00, l)
MemsetTail(buf, l) == SubSeq(buf, 1, LOGGER_BUFFER_MAX_LENGTH - l) \o Rep(0, l)

\* the text of "%s%u%s", GetFileNameFromPath(file), line, separator
RenderedToken(file, line) == GetFileNameFromPath(file) \o FormatU(line) \o <<separator>>

AppendTokenWholeSize(buf, stored, file, line) ==
    Snprintf(buf, stored, LOGGER_BUFFER_MAX_LENGTH, RenderedToken(file, line))

AppendTokenOneMore(buf, stored, file, line) ==
    Snprintf(buf, stored, ToSizeT(LOGGER_BUFFER_MAX_LENGTH - stored) + 1,
             RenderedToken(file, line))

AppendTokenAtStart(buf, stored, file, line) ==
    Snprintf(buf, 0, LOGGER_BUFFER_MAX_LENGTH, RenderedToken(file, line))

\* snprintf(logger_buffer + stored, sizeof(logger_buffer) - stored, "%s%u%s", ...)
AppendToken(buf, stored, file, line) ==
    Snprintf(buf, stored, ToSizeT(LOGGER_BUFFER_MAX_LENGTH - stored), RenderedToken(file, line))

\* the loop condition: new_log_length > 256 - length_of_stored_log, in size_t
NoRoom(newLen, stored) == ToSizeT(newLen) > ToSizeT(LOGGER_BUFFER_MAX_LENGTH - stored)

\* the paths and lines ZB_printf is called with
HFCalls ==
    { [file |-> <<115, 114, 99, 47>> \o Rep(97, 125), line |-> 10],  \* "src/aaa..a", token of 128 bytes
      [file |-> Rep(98, 60), line |-> 7],                          \* "bbb..b", token of 62 bytes
      [file |-> <<99, 45, 100>>, line |-> 7],                      \* "c-d": the name holds the separator
      [file |-> <<46, 92>> \o Rep(101, 260), line |-> 1],          \* ".\eee..e", token of 262 bytes
      [file |-> <<102>>, line |-> 0 - 3],                          \* "f", negative line
      [file |-> <<103>>, line |-> 0] }                             \* "g", line 0

HFUnchanged == UNCHANGED <<build, currentLogLevel, app_name, pfGetMilliseconds,
                           pfLoggerPrintf, sink, last, levelSet, snapshot,
                           path, fileName>>

\* entry of ZB_printf up to the do-while loop; the call returns here unless
\* the loop is needed (logger.c:356-373, 383)
HF_Entry(file, line) ==
    /\ build.mode = "HARD_FAULT"
    /\ pc = "idle"
    /\ new_log_length' = NewLogLength(file, line)
    /\ evictions' = 0
    /\ \E stored \in StoredLogLengths(logger_buffer) :
         /\ length_of_stored_log' = stored
         /\ IF stored = 0
            THEN LET w == AppendToken(Zeros, 0, file, line)
                 IN /\ logger_buffer' = w.buf
                    /\ oob' = (oob \/ w.wrote_outside)
                    /\ pc' = "idle"
                    /\ result' = "written"
            ELSE IF stored > LOGGER_BUFFER_MAX_LENGTH
            THEN /\ logger_buffer' = Zeros
                 /\ oob' = oob
                 /\ pc' = "idle"
                 /\ result' = "caseB"
            ELSE IF NoRoom(NewLogLength(file, line), stored)
            THEN /\ logger_buffer' = logger_buffer
                 /\ oob' = oob
                 /\ pc' = "evict"
                 /\ result' = "none"
            ELSE LET w == AppendToken(logger_buffer, stored, file, line)
                 IN /\ logger_buffer' = w.buf
                    /\ oob' = (oob \/ w.wrote_outside)
                    /\ pc' = "idle"
                    /\ result' = "written"
    /\ HFUnchanged

\* a call of ZB_printf(file, line), recorded behind the calls made before
HF_ZB_printf(file, line) ==
    /\ Len(calls) < MaxCalls
    /\ calls' = Append(calls, [file |-> file, line |-> line])
    /\ HF_Entry(file, line)

\* a call of ZB_printf(file, line) in a run of any length: only the call in
\* progress is recorded
HF_ZB_printf_Again(file, line) ==
    /\ calls' = <<[file |-> file, line |-> line]>>
    /\ HF_Entry(file, line)

\* one iteration of the do-while loop and its test (logger.c:374-379)
HF_EvictStep ==
    /\ build.mode = "HARD_FAULT"
    /\ pc = "evict"
    /\ \E latest_stored_log_length \in LatestStoredLogLengths(logger_buffer) :
         IF latest_stored_log_length > LOGGER_BUFFER_MAX_LENGTH
         THEN \* memcpy from behind the array with a wrapped size
              /\ oob' = TRUE
              /\ logger_buffer' = logger_buffer
              /\ UNCHANGED <<length_of_stored_log, pc, evictions>>
         ELSE LET buf == MemsetTail(Memcpy(logger_buffer, latest_stored_log_length,
                                           build.memcpyBackward),
                                    latest_stored_log_length)
              IN /\ logger_buffer' = buf
                 /\ oob' = oob
                 /\ evictions' = evictions + (IF latest_stored_log_length > 0 THEN 1 ELSE 0)
                 /\ \E stored \in StoredLogLengths(buf) :
                      /\ length_of_stored_log' = stored
                      /\ pc' = IF NoRoom(new_log_length, stored) THEN "evict" ELSE "write"
    /\ UNCHANGED <<calls, new_log_length, result>>
    /\ HFUnchanged

\* the snprintf after the loop (logger.c:383)
HF_Write ==
    /\ build.mode = "HARD_FAULT"
    /\ pc = "write"
    /\ LET c == calls[Len(calls)]
           w == AppendToken(logger_buffer, length_of_stored_log, c.file, c.line)
       IN /\ logger_buffer' = w.buf
          /\ oob' = (oob \/ w.wrote_outside)
    /\ pc' = "idle"
    /\ result' = "written"
    /\ UNCHANGED <<calls, new_log_length, length_of_stored_log, evictions>>
    /\ HFUnchanged

-----------------------------------------------------------------------------
(* The registration and configuration API, logger.c:80-178                  *)

\* float GetMilliseconds(void), in tenths of a millisecond: what the
\* registered clock returns, or -1.0f when none is registered
ClockReadings == {12345}

GetMillisecondsNoSentinel == IF pfGetMilliseconds # "NULL" THEN ClockReadings ELSE {0}

GetMilliseconds == IF pfGetMilliseconds # "NULL" THEN ClockReadings ELSE {0 - 10}

GetAppName == CStr(app_name)

GetCurrentLogLevel == currentLogLevel

LGUnchanged == UNCHANGED <<build, pc, calls, new_log_length, length_of_stored_log,
                           evictions, result, path, fileName>>

LoggerRegisterAppFunctions(pGetMilliseconds, pLoggerPrintf) ==
    /\ pfGetMilliseconds' = pGetMilliseconds
    /\ pfLoggerPrintf' = pLoggerPrintf
    /\ UNCHANGED <<logger_buffer, oob, sink, last, currentLogLevel, app_name,
                   levelSet, snapshot>>
    /\ LGUnchanged

StrncpyNoPadding(dest, src, n) ==
    [i \in 1..Len(dest) |-> IF i <= n /\ i <= Len(src) + 1
                            THEN (IF i <= Len(src) THEN src[i] ELSE 0)
                            ELSE dest[i]]

\* strncpy(dest, src, n): the first n bytes of src, and zeros up to n when
\* src is shorter; no terminator when src has n bytes or more
Strncpy(dest, src, n) ==
    [i \in 1..Len(dest) |-> IF i <= n
                            THEN (IF i <= Len(src) THEN src[i] ELSE 0)
                            ELSE dest[i]]

\* strncpy(app_name, appName, sizeof(app_name) - 1); app_name[49] = '\0'
SetAppName(appName) ==
    /\ app_name' = [Strncpy(app_name, appName, APP_NAME_SIZE - 1) EXCEPT ![APP_NAME_SIZE] = 0]
    /\ UNCHANGED <<logger_buffer, oob, sink, last, currentLogLevel, pfGetMilliseconds,
                   pfLoggerPrintf, levelSet, snapshot>>
    /\ LGUnchanged

SetCurrentLogLevelOtherVariable(level) ==
    /\ currentLogLevel' = currentLogLevel
    /\ levelSet' = TRUE
    /\ UNCHANGED <<logger_buffer, oob, sink, last, app_name, pfGetMilliseconds,
                   pfLoggerPrintf, snapshot>>
    /\ LGUnchanged

SetCurrentLogLevel(level) ==
    /\ currentLogLevel' = level
    /\ levelSet' = TRUE
    /\ UNCHANGED <<logger_buffer, oob, sink, last, app_name, pfGetMilliseconds,
                   pfLoggerPrintf, snapshot>>
    /\ LGUnchanged

\* void GetLoggerBuffer(char* buffer): memcpy(buffer, logger_buffer, 256)
GetLoggerBuffer ==
    /\ snapshot' = logger_buffer
    /\ UNCHANGED <<logger_buffer, oob, sink, last, currentLogLevel, app_name,
                   pfGetMilliseconds, pfLoggerPrintf, levelSet>>
    /\ LGUnchanged

-----------------------------------------------------------------------------
(* LOGGER_ENABLED: ZB_printf(level, file, function, line, fmt, ...),        *)
(* logger.c:218-336                                                        *)

\* logger_array[level].entity.name
LevelName(level) ==
    CASE level = DBG   -> <<68, 66, 71>>
      [] level = INFO  -> <<73, 78, 70, 79>>
      [] level = WARN  -> <<87, 65, 82, 78>>
      [] level = ERR   -> <<69, 82, 82>>
      [] level = FATAL -> <<70, 65, 84, 65, 76>>

\* logger_array[level].color: "\x1b[3?;1m"
LevelColor(level) ==
    CASE level = DBG   -> <<27, 91, 51, 55, 59, 49, 109>>
      [] level = INFO  -> <<27, 91, 51, 50, 59, 49, 109>>
      [] level = WARN  -> <<27, 91, 51, 51, 59, 49, 109>>
      [] level = ERR   -> <<27, 91, 51, 49, 59, 49, 109>>
      [] level = FATAL -> <<27, 91, 51, 49, 59, 49, 109>>

\* "%0.1f" of a value given in tenths
FormatF1(t) ==
    LET a == IF t < 0 THEN 0 - t ELSE t
    IN (IF t < 0 THEN <<45>> ELSE <<>>) \o Digits(a \div 10) \o <<46, 48 + (a % 10)>>

\* the text of "%s%s[%0.1f] : %s : %s : %s : %d -> "
Preamble(level, ms, file, function, line) ==
    LevelColor(level) \o GetAppName \o <<91>> \o FormatF1(ms) \o <<93, 32, 58, 32>>
    \o LevelName(level) \o <<32, 58, 32>> \o GetFileNameFromPath(file) \o <<32, 58, 32>>
    \o function \o <<32, 58, 32>> \o FormatD(line) \o <<32, 45, 62, 32>>

LevelEnabledOffByOne(level) == level + 1 >= GetCurrentLogLevel

\* if (level >= GetCurrentLogLevel())
LevelEnabled(level) == level >= GetCurrentLogLevel

\* size_t size = sizeof(logger_buffer) - sizeof(RESET_NEWLINE) - length
RemainingSize(length) == ToSizeT(LOGGER_BUFFER_MAX_LENGTH - build.sizeofPtr - length)

\* length after the message: logger.c:317-328 (written is vsnprintf's result)
LengthAfterMessage(length, size, written) ==
    IF size > 0 /\ written > 0
    THEN IF ToSizeT(written) > size THEN length + size ELSE length + written
    ELSE length

\* LoggerPrintf((uint8_t *) logger_buffer, length + sizeof(RESET_NEWLINE)):
\* the uint8_t len the sink receives
SinkLength(length) == ToSizeT(length + build.sizeofPtr) % 256

ClearBufferSkipped(buf) == buf

\* memset(logger_buffer, 0x00, sizeof(logger_buffer))
ClearBuffer(buf) == Zeros

\* what ZB_printf does once the level is enabled (logger.c:301-332), with
\* `start` in logger_buffer on entry; `message` is the text fmt and its
\* arguments format to
RenderFrom(start, level, ms, file, function, line, message) ==
    LET pre     == Snprintf(ClearBuffer(start), 0, LOGGER_BUFFER_MAX_LENGTH,
                            Preamble(level, ms, file, function, line))
        size    == RemainingSize(pre.ret)
        msg     == IF size > 0
                   THEN Snprintf(pre.buf, pre.ret, size, message)
                   ELSE [buf |-> pre.buf, wrote_outside |-> FALSE, ret |-> 0]
        length  == LengthAfterMessage(pre.ret, size, msg.ret)
        trailer == Snprintf(msg.buf, length, ToSizeT(LOGGER_BUFFER_MAX_LENGTH - length),
                            RESET_NEWLINE)
    IN [buf |-> trailer.buf,
        wrote_outside |-> pre.wrote_outside \/ msg.wrote_outside \/ trailer.wrote_outside,
        preamble_length |-> pre.ret,
        message_rendered |-> size > 0,
        length |-> length]

Render(level, ms, file, function, line, message) ==
    RenderFrom(logger_buffer, level, ms, file, function, line, message)

\* the arguments ZB_printf is called with, besides the level
LGCalls ==
    LET file == <<115, 114, 99, 92, 109, 46, 99>>     \* "src\m.c"
        main == <<109, 97, 105, 110>>                 \* "main"
        code == <<99, 111, 100, 101, 61, 55>>         \* "code=7"
    IN { [file |-> file, function |-> main, line |-> 10, message |-> code],
         [file |-> file, function |-> main, line |-> 10, message |-> <<>>],
         [file |-> file, function |-> main, line |-> 10, message |-> Rep(120, 300)],
         [file |-> file, function |-> Rep(102, 210), line |-> 10, message |-> code] }

AppNames == {Rep(78, 60)}

Registrations == {<<"NULL", "NULL">>, <<"clock", "sink">>}

\* `last` and `sink` describe the last ZB_printf call
LG_ZB_printf(level, file, function, line, message) ==
    /\ build.mode = "LOGGER"
    /\ IF LevelEnabled(level)
       THEN \E ms \in GetMilliseconds :
              LET r == Render(level, ms, file, function, line, message)
              IN /\ logger_buffer' = r.buf
                 /\ oob' = (oob \/ r.wrote_outside)
                 /\ sink' = IF pfLoggerPrintf # "NULL"
                            THEN <<[len |-> SinkLength(r.length)]>>
                            ELSE <<>>
                 /\ last' = [op |-> "ZB_printf", level |-> level, emitted |-> TRUE,
                             preamble_length |-> r.preamble_length,
                             message_rendered |-> r.message_rendered,
                             length |-> r.length]
       ELSE /\ sink' = <<>>
            /\ last' = [op |-> "ZB_printf", level |-> level, emitted |-> FALSE,
                        preamble_length |-> 0, message_rendered |-> FALSE, length |-> 0]
            /\ UNCHANGED <<logger_buffer, oob>>
    /\ UNCHANGED <<currentLogLevel, app_name, pfGetMilliseconds, pfLoggerPrintf,
                   levelSet, snapshot>>
    /\ LGUnchanged

-----------------------------------------------------------------------------

AppNameInit == <<77, 121, 65, 112, 112>> \o Rep(0, APP_NAME_SIZE - 5)

InitCommon ==
    /\ logger_buffer = Zeros
    /\ oob = FALSE
    /\ currentLogLevel = WARN
    /\ app_name = AppNameInit
    /\ pfGetMilliseconds = "NULL"
    /\ pfLoggerPrintf = "NULL"
    /\ sink = <<>>
    /\ last = [op |-> "none", level |-> DBG, emitted |-> FALSE, preamble_length |-> 0,
               message_rendered |-> FALSE, length |-> 0]
    /\ pc = "idle"
    /\ calls = <<>>
    /\ new_log_length = 0
    /\ length_of_stored_log = 0
    /\ evictions = 0
    /\ result = "none"
    /\ levelSet = FALSE
    /\ snapshot = <<>>
    /\ path = <<>>
    /\ fileName = <<>>

InitFault == build \in {b \in Builds : b.mode = "HARD_FAULT"} /\ InitCommon

NextFault ==
    \/ \E c \in HFCalls : HF_ZB_printf(c.file, c.line)
    \/ HF_EvictStep
    \/ HF_Write

SpecFault == InitFault /\ [][NextFault]_vars

\* the calls of a ring that is written for ever: two tokens of 128 bytes,
\* which differ in the line, and one of 62 bytes
RingCalls ==
    { [file |-> <<115, 114, 99, 47>> \o Rep(97, 125), line |-> 10],
      [file |-> <<115, 114, 99, 47>> \o Rep(97, 125), line |-> 11],
      [file |-> Rep(98, 60), line |-> 7] }

NextRing ==
    \/ \E c \in RingCalls : HF_ZB_printf_Again(c.file, c.line)
    \/ HF_EvictStep
    \/ HF_Write

\* ZB_printf keeps being called and every call runs to its end
SpecRing == InitFault /\ [][NextRing]_vars /\ WF_vars(NextRing)

InitLogger == build \in {b \in Builds : b.mode = "LOGGER"} /\ InitCommon

NextLogger ==
    \/ \E r \in Registrations : build.mode = "LOGGER" /\ LoggerRegisterAppFunctions(r[1], r[2])
    \/ \E n \in AppNames : build.mode = "LOGGER" /\ SetAppName(n)
    \/ \E v \in Levels : build.mode = "LOGGER" /\ SetCurrentLogLevel(v)
    \/ \E level \in Levels, c \in LGCalls :
          LG_ZB_printf(level, c.file, c.function, c.line, c.message)

SpecLogger == InitLogger /\ [][NextLogger]_vars

\* every way LoggerRegisterAppFunctions can be called: each pointer null or not
AllRegistrations == {<<g, p>> : g \in {"NULL", "clock"}, p \in {"NULL", "sink"}}

\* the calls of LGCalls with the short message: a short and an over-long preamble
CollaboratorCalls == {c \in LGCalls : Len(c.message) = 6}

\* the LOGGER build with every combination of registered collaborators
NextCollaborators ==
    \/ \E r \in AllRegistrations :
          build.mode = "LOGGER" /\ LoggerRegisterAppFunctions(r[1], r[2])
    \/ \E v \in Levels : build.mode = "LOGGER" /\ SetCurrentLogLevel(v)
    \/ \E level \in Levels, c \in CollaboratorCalls :
          LG_ZB_printf(level, c.file, c.function, c.line, c.message)

SpecCollaborators == InitLogger /\ [][NextCollaborators]_vars

\* the characters of the paths: '/', '\', 'a'
PathChars == {47, 92, 97}

\* every path of at most MaxPathLen characters
Paths == UNION {[1..n -> PathChars] : n \in 0..MaxPathLen}

\* a call fileName = GetFileNameFromPath(p)
CallGetFileNameFromPath(p) ==
    /\ path' = p
    /\ fileName' = GetFileNameFromPath(p)
    /\ UNCHANGED <<build, logger_buffer, oob, currentLogLevel, app_name, pfGetMilliseconds,
                   pfLoggerPrintf, sink, last, pc, calls, new_log_length,
                   length_of_stored_log, evictions, result, levelSet, snapshot>>

InitFileName == build \in Builds /\ InitCommon

NextFileName == \E p \in Paths : CallGetFileNameFromPath(p)

SpecFileName == InitFileName /\ [][NextFileName]_vars

\* names given to SetAppName: empty, short, of 49, 50 and 60 characters
ConfigNames == {<<>>, <<65, 66>>, Rep(78, 49), Rep(79, 50), Rep(80, 60)}

\* the call of LGCalls with the short message and the short function name
ConfigCalls == {c \in LGCalls : Len(c.message) = 6 /\ Len(c.function) = 4}

\* the LOGGER build driven through its whole configuration API
NextConfig ==
    \/ \E r \in Registrations : build.mode = "LOGGER" /\ LoggerRegisterAppFunctions(r[1], r[2])
    \/ \E n \in ConfigNames : build.mode = "LOGGER" /\ SetAppName(n)
    \/ \E v \in Levels : build.mode = "LOGGER" /\ SetCurrentLogLevel(v)
    \/ build.mode = "LOGGER" /\ GetLoggerBuffer
    \/ \E c \in ConfigCalls : LG_ZB_printf(ERR, c.file, c.function, c.line, c.message)

SpecConfig == InitLogger /\ [][NextConfig]_vars

-----------------------------------------------------------------------------
(* Properties of the hard-fault ring                                       *)

\* offset one past the last separator of the string in the buffer
UsedBytes(buf) == StrRChr(CStr(buf), separator)

\* the token of a call as ZB_printf renders it: basename, line, separator
Token(c) == RenderedToken(c.file, c.line)

CallTokens == [i \in 1..Len(calls) |-> Token(calls[i])]

RECURSIVE SplitTokens(_)
\* the separator-terminated pieces of s, left to right (s ends with a separator or is empty)
SplitTokens(s) ==
    IF s = <<>> THEN <<>>
    ELSE LET p == StrChr(s, separator)
         IN <<SubSeq(s, 1, p)>> \o SplitTokens(SubSeq(s, p + 1, Len(s)))

BufferTokens(buf) == SplitTokens(SubSeq(buf, 1, UsedBytes(buf)))

RECURSIVE IsSubsequence(_, _)
\* a is b with some elements left out
IsSubsequence(a, b) ==
    IF a = <<>> THEN TRUE
    ELSE IF b = <<>> THEN FALSE
    ELSE IF Head(a) = Head(b) THEN IsSubsequence(Tail(a), Tail(b))
    ELSE IsSubsequence(a, Tail(b))

\* C1: in fault mode no byte is ever written outside the 256-byte buffer and
\* the stored length (offset one past the last separator), as the code
\* computes it in the loop and would compute it from the buffer, never
\* exceeds 256.
C1_RingStaysInBuffer ==
    build.mode = "HARD_FAULT" =>
        /\ ~oob
        /\ length_of_stored_log <= LOGGER_BUFFER_MAX_LENGTH
        /\ \A s \in StoredLogLengths(logger_buffer) : s <= LOGGER_BUFFER_MAX_LENGTH

\* C1 witness: a call that had to evict has returned and left the ring within
\* six bytes of full.
C1_Witness ==
    /\ build.mode = "HARD_FAULT" /\ pc = "idle" /\ result = "written"
    /\ evictions > 0
    /\ UsedBytes(logger_buffer) >= LOGGER_BUFFER_MAX_LENGTH - 6

\* C2: every call that does not take Case B has, when it returns, left its
\* token (basename, line, separator) as the last separator-terminated text of
\* the buffer, at the stored length it found.  Stated for the tokens no longer
\* than the buffer, which include the one that fills the free space exactly.
C2_AppendStoresToken ==
    (build.mode = "HARD_FAULT" /\ pc = "idle" /\ result = "written"
       /\ new_log_length <= LOGGER_BUFFER_MAX_LENGTH) =>
        LET t == Token(calls[Len(calls)])
        IN /\ UsedBytes(logger_buffer) = length_of_stored_log + Len(t)
           /\ SubSeq(logger_buffer, length_of_stored_log + 1,
                     length_of_stored_log + Len(t)) = t

\* C3: between calls, the separator-delimited tokens of the buffer, read left
\* to right, are a subsequence of the tokens of the calls made, in call order.
C3_TokensInCallOrder ==
    (build.mode = "HARD_FAULT" /\ pc = "idle") =>
        IsSubsequence(BufferTokens(logger_buffer), CallTokens)

\* C4: the eviction loop terminates: while the loop runs, an iteration changes
\* the state (an iteration that changes nothing repeats forever, the loop
\* being deterministic).
C4_EvictionLoopTerminates ==
    (build.mode = "HARD_FAULT" /\ pc = "evict") => ENABLED <<HF_EvictStep>>_vars

\* C5: an iteration of the eviction loop removes exactly the text one earlier
\* call appended, from offset 0 through that token's separator, and leaves the
\* rest of the buffer shifted to offset 0.
C5_EvictsOneWholeToken ==
    [][(build.mode = "HARD_FAULT" /\ pc = "evict") =>
          \E k \in 1..(Len(calls) - 1) :
             LET t == Token(calls[k])
             IN /\ Len(t) <= LOGGER_BUFFER_MAX_LENGTH
                /\ SubSeq(logger_buffer, 1, Len(t)) = t
                /\ logger_buffer' = [i \in 1..LOGGER_BUFFER_MAX_LENGTH |->
                                       IF i <= LOGGER_BUFFER_MAX_LENGTH - Len(t)
                                       THEN logger_buffer[i + Len(t)] ELSE 0]]_vars

-----------------------------------------------------------------------------
(* Properties of the formatted logger                                      *)

\* the bytes the sink was handed by the last ZB_printf call
Delivered == SubSeq(logger_buffer, 1, sink[1].len)

\* number of bytes of the record in the buffer (the buffer is zeroed first)
RecordBytes(buf) ==
    IF \E i \in 1..Len(buf) : buf[i] # 0
    THEN CHOOSE i \in 1..Len(buf) : buf[i] # 0 /\ \A j \in (i + 1)..Len(buf) : buf[j] = 0
    ELSE 0

\* C6: a ZB_printf call whose level is below the threshold leaves the buffer
\* unchanged and does not invoke the sink.
C6_SuppressedCallIsNoOp ==
    [][\A level \in Levels, c \in LGCalls :
          (level < currentLogLevel /\ LG_ZB_printf(level, c.file, c.function, c.line, c.message))
          => (logger_buffer' = logger_buffer /\ sink' = <<>>)]_vars

\* C6 witness: with a sink registered and a record in the buffer, a call below
\* the threshold has returned.
C6_Witness ==
    /\ last.op = "ZB_printf" /\ ~last.emitted /\ last.level < currentLogLevel
    /\ pfLoggerPrintf = "sink"
    /\ logger_buffer # Zeros
    /\ sink = <<>>

\* C7: what the sink is handed starts with the colour code of the level and
\* ends with exactly the trailer "\n\r\x1b[0m".
C7_DeliveredColourAndTrailer ==
    (last.emitted /\ sink # <<>>) =>
        LET n == sink[1].len
        IN /\ n >= 7 + Len(RESET_NEWLINE)
           /\ SubSeq(Delivered, 1, 7) = LevelColor(last.level)
           /\ SubSeq(Delivered, n - Len(RESET_NEWLINE) + 1, n) = RESET_NEWLINE

\* C8: the tracked length and the delivered length never exceed 256 and no
\* byte is written outside the buffer.
C8_RecordStaysInBuffer ==
    build.mode = "LOGGER" =>
        /\ ~oob
        /\ last.length <= LOGGER_BUFFER_MAX_LENGTH
        /\ \A i \in 1..Len(sink) : sink[i].len <= LOGGER_BUFFER_MAX_LENGTH

\* C9: when the preamble leaves no positive remaining space, no message is
\* rendered and the whole trailer is still appended after the preamble.
C9_NoRoomSkipsMessage ==
    (last.emitted
       /\ LOGGER_BUFFER_MAX_LENGTH - build.sizeofPtr - last.preamble_length <= 0) =>
        /\ ~last.message_rendered
        /\ last.length + Len(RESET_NEWLINE) <= LOGGER_BUFFER_MAX_LENGTH
        /\ SubSeq(logger_buffer, last.length + 1, last.length + Len(RESET_NEWLINE))
              = RESET_NEWLINE

\* C10: with a sink registered the sink is invoked exactly once and its
\* length argument is the number of bytes of the record in the buffer.
C10_SinkLengthIsRecordLength ==
    (last.emitted /\ sink # <<>>) =>
        /\ Len(sink) = 1
        /\ sink[1].len = RecordBytes(logger_buffer)

-----------------------------------------------------------------------------
(* Properties of the registration and configuration API                    *)

\* TRUE iff p is a prefix of s
IsPrefix(p, s) == Len(p) <= Len(s) /\ SubSeq(s, 1, Len(p)) = p

\* "[-1.0]"
SentinelField == <<91, 45, 49, 46, 48, 93>>

\* C11: an enabled ZB_printf call completes whatever is registered: with no
\* clock the time field of the record is -1.0, and with no sink the record is
\* still rendered into logger_buffer and the sink is not invoked.
C11_MissingCollaborator ==
    [][\A level \in Levels, c \in CollaboratorCalls :
         (LevelEnabled(level) /\ LG_ZB_printf(level, c.file, c.function, c.line, c.message))
         => /\ last'.emitted
            /\ IsPrefix(LevelColor(level) \o GetAppName, logger_buffer')
            /\ pfGetMilliseconds = "NULL"
               => IsPrefix(LevelColor(level) \o GetAppName \o SentinelField, logger_buffer')
            /\ pfLoggerPrintf = "NULL" => sink' = <<>>]_vars

\* a record emitted after LoggerRegisterAppFunctions(NULL, sink): the sentinel
\* is in the record and the sink was invoked
C11_Witness ==
    /\ last.emitted
    /\ sink # <<>>
    /\ pfGetMilliseconds = "NULL"
    /\ pfLoggerPrintf = "sink"
    /\ IsPrefix(LevelColor(last.level) \o GetAppName \o SentinelField, logger_buffer)

\* a record emitted after LoggerRegisterAppFunctions(clock, NULL): the clock
\* reading is in the record and the sink was not invoked
C11_WitnessNullSink ==
    /\ last.emitted
    /\ sink = <<>>
    /\ pfGetMilliseconds = "clock"
    /\ pfLoggerPrintf = "NULL"
    /\ IsPrefix(LevelColor(last.level) \o GetAppName \o <<91, 49, 50, 51, 52, 46, 53, 93>>,
                logger_buffer)

\* C12: SetAppName(s) stores the first min(length(s), 49) characters of s and
\* a terminator: GetAppName returns exactly these, every byte of app_name
\* behind them is 0 (nothing of the previous name is left) and app_name keeps
\* its 50 bytes.
C12_SetAppNameTruncates ==
    [][\A n \in ConfigNames :
         SetAppName(n)
         => /\ GetAppName' = SubSeq(n, 1, Min(Len(n), APP_NAME_SIZE - 1))
            /\ Len(app_name') = APP_NAME_SIZE
            /\ \A i \in (Min(Len(n), APP_NAME_SIZE - 1) + 1)..APP_NAME_SIZE : app_name'[i] = 0]_vars

\* the 60 character name was stored: 49 characters and the terminator
C12_Witness == GetAppName = Rep(80, APP_NAME_SIZE - 1) /\ app_name[APP_NAME_SIZE] = 0

\* the two character name is stored and every other byte of app_name is 0
C12_WitnessShort == app_name = <<65, 66>> \o Rep(0, APP_NAME_SIZE - 2)

\* C13: as long as SetCurrentLogLevel was not called, GetCurrentLogLevel
\* returns DBG.
C13_DefaultLevelIsDBG == ~levelSet => GetCurrentLogLevel = DBG

\* C14: SetCurrentLogLevel(v) makes GetCurrentLogLevel return v, and no other
\* call (ZB_printf, SetAppName, LoggerRegisterAppFunctions, GetLoggerBuffer)
\* changes what it returns.
C14_LevelRoundTrip ==
    [][/\ \A v \in Levels : SetCurrentLogLevel(v) => GetCurrentLogLevel' = v
       /\ (\A v \in Levels : ~SetCurrentLogLevel(v)) => GetCurrentLogLevel' = GetCurrentLogLevel]_vars

\* the level was set to FATAL, and ZB_printf, SetAppName,
\* LoggerRegisterAppFunctions and GetLoggerBuffer were called
C14_Witness ==
    /\ levelSet
    /\ GetCurrentLogLevel = FATAL
    /\ last.op = "ZB_printf"
    /\ app_name # AppNameInit
    /\ pfLoggerPrintf = "sink"
    /\ snapshot # <<>>

-----------------------------------------------------------------------------
(* Further properties of the hard-fault ring                               *)

\* C15: the token length ZB_printf computes before appending (basename, digits
\* of the line with one more for a minus sign, separator) is the number of
\* bytes of the token text it renders, for positive, zero and negative lines.
C15_ComputedLengthIsRenderedLength ==
    (build.mode = "HARD_FAULT" /\ calls # <<>>) =>
        new_log_length = Len(RenderedToken(calls[Len(calls)].file, calls[Len(calls)].line))

\* C17: the stored length the code would compute from the buffer is at most
\* 256 in every state, and no call has returned through the branch that
\* clears the buffer without appending.
C17_CaseBNeverTaken ==
    build.mode = "HARD_FAULT" =>
        /\ result # "caseB"
        /\ \A stored \in StoredLogLengths(logger_buffer) : stored <= LOGGER_BUFFER_MAX_LENGTH

\* a call has returned leaving the string in the buffer at its longest, 255
\* bytes and the terminator, with tokens stored
C17_Witness ==
    /\ build.mode = "HARD_FAULT" /\ pc = "idle" /\ result = "written"
    /\ StrLen(logger_buffer) = LOGGER_BUFFER_MAX_LENGTH - 1
    /\ UsedBytes(logger_buffer) > 0

\* C18: eviction removes as few tokens as possible: a call enters the loop
\* only when its token does not fit behind the stored ones, an iteration runs
\* only while it does not fit, and an iteration removes the first stored
\* token and keeps all the others, so that the tokens kept are the longest
\* suffix of the stored tokens that leaves room.  Stated for the tokens no
\* longer than the buffer.
C18_EvictionIsMinimal ==
    [][/\ (build.mode = "HARD_FAULT" /\ pc = "idle" /\ pc' = "evict")
          => new_log_length' > LOGGER_BUFFER_MAX_LENGTH - UsedBytes(logger_buffer)
       /\ (build.mode = "HARD_FAULT" /\ pc = "evict"
             /\ new_log_length <= LOGGER_BUFFER_MAX_LENGTH)
          => /\ new_log_length > LOGGER_BUFFER_MAX_LENGTH - UsedBytes(logger_buffer)
             /\ BufferTokens(logger_buffer) # <<>>
             /\ BufferTokens(logger_buffer') = Tail(BufferTokens(logger_buffer))]_vars

\* C19: a call that finds tokens stored and room for its own (0 < stored
\* length, token length <= 256 - stored length) returns without evicting,
\* leaves every byte below the stored length as it was, so that every stored
\* token is still there, and writes its token from the stored length on.
C19_FitLeavesStoredTokens ==
    [][(/\ build.mode = "HARD_FAULT" /\ pc = "idle" /\ calls' # calls
        /\ 0 < length_of_stored_log'
        /\ length_of_stored_log' <= LOGGER_BUFFER_MAX_LENGTH
        /\ new_log_length' <= LOGGER_BUFFER_MAX_LENGTH - length_of_stored_log')
       => LET stored == length_of_stored_log'
              t == Token(calls'[Len(calls')])
              k == Min(Len(t), LOGGER_BUFFER_MAX_LENGTH - 1 - stored)
          IN /\ pc' = "idle" /\ result' = "written" /\ evictions' = 0
             /\ stored = UsedBytes(logger_buffer)
             /\ SubSeq(logger_buffer', 1, stored) = SubSeq(logger_buffer, 1, stored)
             /\ IsPrefix(BufferTokens(logger_buffer), BufferTokens(logger_buffer'))
             /\ SubSeq(logger_buffer', stored + 1, stored + k) = SubSeq(t, 1, k)]_vars

\* three calls have returned without evicting and their three tokens are stored
C19_Witness ==
    /\ build.mode = "HARD_FAULT" /\ pc = "idle" /\ result = "written"
    /\ evictions = 0
    /\ Len(calls) = 3
    /\ BufferTokens(logger_buffer) = CallTokens

\* C16: as ZB_printf keeps being called the ring keeps turning over: again and
\* again a call evicts stored tokens to make room for its own, so that every
\* stored token is evicted in the end and the ring never reaches a state from
\* which the calls leave the stored tokens as they are for ever.
C16_RingKeepsTurningOver == []<>(evictions > 0)

-----------------------------------------------------------------------------
(* Further properties of the formatted logger                              *)

\* a buffer with no byte in common with a cleared one
Stale == Rep(255, LOGGER_BUFFER_MAX_LENGTH)

\* C20: after an enabled ZB_printf call all 256 bytes of logger_buffer are
\* what the call's arguments, the application name and the clock reading
\* give, whatever the buffer held before: the same as from a buffer that held
\* only stale bytes; and every byte behind the record's trailer is 0.
C20_BufferIndependentOfHistory ==
    [][\A level \in Levels, c \in LGCalls :
         (/\ LevelEnabled(level)
          /\ last'.emitted /\ last'.level = level
          /\ LG_ZB_printf(level, c.file, c.function, c.line, c.message))
         => /\ \E ms \in GetMilliseconds :
                 logger_buffer' = RenderFrom(Stale, level, ms, c.file, c.function,
                                             c.line, c.message).buf
            /\ \A i \in (last'.length + Len(RESET_NEWLINE) + 1)..LOGGER_BUFFER_MAX_LENGTH :
                 logger_buffer'[i] = 0]_vars

\* a short record is in the buffer after an earlier call rendered a record
\* that filled the buffer and beyond
C20_Witness ==
    /\ build.mode = "LOGGER"
    /\ oob
    /\ last.emitted
    /\ last.length < 100
    /\ \A i \in 100..LOGGER_BUFFER_MAX_LENGTH : logger_buffer[i] = 0

-----------------------------------------------------------------------------
(* Properties of GetFileNameFromPath                                       *)

PathSeparators == {47, 92}

\* C21: GetFileNameFromPath returns the part of the path behind the last '/'
\* or '\', whichever comes later: a suffix of the path that holds neither
\* character and is preceded by one of them, or the whole path when it holds
\* neither; the empty string when the path ends with one.
C21_FileNameFollowsLastSeparator ==
    LET k == Len(path) - Len(fileName)
    IN /\ k >= 0
       /\ fileName = SubSeq(path, k + 1, Len(path))
       /\ \A i \in 1..Len(fileName) : fileName[i] \notin PathSeparators
       /\ k > 0 => path[k] \in PathSeparators
       /\ (Len(path) > 0 /\ path[Len(path)] \in PathSeparators) => fileName = <<>>

\* a path with '/' before '\' was given and the name behind the '\' returned
C21_Witness ==
    /\ Len(path) = MaxPathLen
    /\ path[1] = 47 /\ path[2] = 97 /\ path[3] = 92 /\ path[4] = 97
    /\ fileName = <<97>>

\* a path with '\' before '/' that ends with the '/': the empty name
C21_WitnessEmpty ==
    /\ path = <<97, 92, 47>>
    /\ fileName = <<>>

-----------------------------------------------------------------------------
(* The last byte of the hard-fault ring                                    *)

\* C22: in every state of the hard-fault build the last byte of
\* logger_buffer, index 255, is 0: the string in the buffer ends inside it, so
\* the scans for the separator stop inside the buffer, and the stored tokens
\* take at most 255 bytes.
C22_LastByteStaysZero ==
    build.mode = "HARD_FAULT" =>
        /\ logger_buffer[LOGGER_BUFFER_MAX_LENGTH] = 0
        /\ StrLen(logger_buffer) <= LOGGER_BUFFER_MAX_LENGTH - 1
        /\ UsedBytes(logger_buffer) <= LOGGER_BUFFER_MAX_LENGTH - 1

\* a call that evicted has written up to index 254 and left index 255 at 0
C22_Witness ==
    /\ build.mode = "HARD_FAULT" /\ pc = "idle" /\ result = "written"
    /\ evictions > 0
    /\ logger_buffer[LOGGER_BUFFER_MAX_LENGTH - 1] # 0
    /\ logger_buffer[LOGGER_BUFFER_MAX_LENGTH] = 0

====
